---------------------------- MODULE Spec2Model ----------------------------
(***************************************************************************)
(* A model of scripts/job_search.py: the text classifiers, the listing     *)
(* normaliser, the detail-fetch policy, the filter pipeline, the distance  *)
(* scorer and the deduplicator/ranker of enrich_and_filter.                *)
(*                                                                         *)
(* Texts are TLA+ strings and every classifier is computed on the          *)
(* characters of its argument, as the Python code does (substring search,  *)
(* str.lower, str.strip, the regular expressions).  The alphabet of the    *)
(* model is Latin-1: the three non-Latin-1 characters of the source (the   *)
(* typographic apostrophe of one looks_recent hint, the en and em dash of  *)
(* RE_RANGE) cannot occur in a text of the model and are left out of the   *)
(* tables below.                                                           *)
(***************************************************************************)
EXTENDS Integers, Sequences, FiniteSets, TLC

VARIABLES
    HOUSING_REQUIRED,  \* configuration flag (environment), fixed for a run
    pc,                \* position in enrich_and_filter / of a classifier run
    n,                 \* number of listings of the input list examined so far
    origin,            \* coordinates of ORIGIN_CITY, or None
    candidates,        \* list of accepted candidates, in iteration order
    seen_links,        \* set of links already examined
    GEOCODE_CACHE,     \* the geocode memo: set of <<key, coords>> pairs
    fetched,           \* links for which fetch_page_text was called
    contacted,         \* links for which fetch_contact_details was called
    last,              \* what happened to the listing examined last
    enriched,          \* the list returned by enrich_and_filter
    txt,               \* input text of a classifier run
    verdict,           \* result of a classifier run
    MAX_RESULTS,       \* configuration: the number of results aimed at
    items,             \* the list collect_offers builds, input of enrich_and_filter
    calls,             \* what each provider called so far did: its batch, or "raise"
    sent,              \* send_email was called
    run,               \* which run of enrich_and_filter on the same input this is
    first_output,      \* the list the first run returned
    oracle             \* the answers the web and the geocoder have given so far

vars == <<HOUSING_REQUIRED, pc, n, origin, candidates, seen_links, GEOCODE_CACHE,
          fetched, contacted, last, enriched, txt, verdict,
          MAX_RESULTS, items, calls, sent, run, first_output, oracle>>

\* the state of the callers of enrich_and_filter and of its environment
callers == <<MAX_RESULTS, items, calls, sent, run, first_output, oracle>>

\* Python's None, where a coordinate pair is expected
None == <<>>

(***************************************************************************)
(* Characters and Python's string primitives.                              *)
(***************************************************************************)
\* the character of s at position i, "" outside s
\* The element of a one-element set.  Only({e(x) : x \in {v}}) is the value of
\* e(x) after the assignment x = v.
Only(S) == CHOOSE x \in S : TRUE

Char(s, i) == IF 1 <= i /\ i <= Len(s) THEN SubSeq(s, i, i) ELSE ""

CharsOf(s) == {Char(s, i) : i \in 1..Len(s)}

UPPER == "ABCDEFGHIJKLMNOPQRSTUVWXYZÀÁÂÃÄÅÆÇÈÉÊËÌÍÎÏÐÑÒÓÔÕÖØÙÚÛÜÝÞ"

LOWER == "abcdefghijklmnopqrstuvwxyzàáâãäåæçèéêëìíîïðñòóôõöøùúûüýþ"

Digits == CharsOf("0123456789")

WhiteSpace == {" ", "\t", "\n", "\r", "\f"}

Letters == CharsOf(UPPER) \cup CharsOf(LOWER) \cup {"ß", "ÿ"}

\* \w of a Python str pattern
WordChars == Letters \cup Digits \cup {"_"}

IsDigit(c) == c \in Digits

IsSpace(c) == c \in WhiteSpace

IsWord(c) == c \in WordChars

LowerOf == [c \in CharsOf(UPPER) |-> Char(LOWER, CHOOSE i \in 1..Len(UPPER) : Char(UPPER, i) = c)]

LowerChar(c) == IF c \in DOMAIN LowerOf THEN LowerOf[c] ELSE c

\* str.lower, character by character (the two halves of s, lower-cased)
RECURSIVE lower(_)
lower(s) ==
    IF Len(s) = 0 THEN ""
    ELSE IF Len(s) = 1 THEN LowerChar(s)
    ELSE LET h == Len(s) \div 2
         IN  lower(SubSeq(s, 1, h)) \o lower(SubSeq(s, h + 1, Len(s)))

\* the occurrence test  w in t
Contains(t, w) == \E i \in 1..(Len(t) - Len(w) + 1) : SubSeq(t, i, i + Len(w) - 1) = w

\* w occurs in t at position i
At(t, i, w) == i >= 1 /\ i + Len(w) - 1 <= Len(t) /\ SubSeq(t, i, i + Len(w) - 1) = w

StartsWith(t, w) == At(t, 1, w)

\* the end (exclusive) of the longest run of characters satisfying P from i
RunEnd(t, i, P(_)) ==
    CHOOSE j \in i..(Len(t) + 1) :
        /\ (j = Len(t) + 1 \/ ~P(Char(t, j)))
        /\ \A k \in i..(j - 1) : P(Char(t, k))

StripEnd(s) ==
    CHOOSE j \in 0..Len(s) :
        /\ (j = 0 \/ ~IsSpace(Char(s, j)))
        /\ \A k \in (j + 1)..Len(s) : IsSpace(Char(s, k))

strip(s0) ==
    Only({IF a > Len(s) THEN "" ELSE SubSeq(s, a, StripEnd(s)) :
              <<s, a>> \in {<<x, RunEnd(x, 1, IsSpace)>> : x \in {s0}}})

DigitVal(c) == (CHOOSE i \in 1..10 : Char("0123456789", i) = c) - 1

\* int() of a string of decimal digits
RECURSIVE ToInt(_)
ToInt(s) == IF Len(s) = 0 THEN 0
            ELSE 10 * ToInt(SubSeq(s, 1, Len(s) - 1)) + DigitVal(Char(s, Len(s)))

Max(a, b) == IF a >= b THEN a ELSE b

Min(a, b) == IF a <= b THEN a ELSE b

(***************************************************************************)
(* Occupation categories (job_search.py, "Metier cible").                  *)
(***************************************************************************)
SERVICE_BAR_POLY == {
    "serveur", "serveuse", "chef de rang", "runner",
    "bar", "barman", "barmaid",
    "polyvalent", "polyvalente", "employé polyvalent", "employée polyvalente",
    "réceptionniste", "accueil", "accueillant", "accueillante", "hôtesse", "hôte"}

VENTE_OBJETS == {
    "vendeur", "vendeuse", "conseiller de vente", "conseillère de vente",
    "prêt-à-porter", "pret-a-porter", "mode", "boutique", "chaussures", "sport", "magasin",
    "papeterie", "maison", "décoration", "electronique", "high-tech", "jouet", "bricolage"}

RAYON_MERCH == {
    "mise en rayon", "remise en rayon", "els", "employé libre-service", "employée libre-service",
    "merchandising", "réassort", "reassort", "facing", "inventaire", "magasinier"}

CUISINE_HARD == {
    "cuisinier", "cuisinière", "cuisine", "commis de cuisine", "commis cuisine",
    "chef de partie", "plongeur batterie", "préparateur culinaire", "snack", "pizzaiolo"}

ALIMENTAIRE_HARD == {
    "boucher", "bouchère", "boucherie", "charcutier", "charcuterie",
    "poissonnier", "poissonnerie", "fromager", "fromagerie",
    "boulanger", "boulangerie", "pâtissier", "pâtisserie", "patissier", "patisserie",
    "primeur", "traiteur", "restauration rapide", "sandwicherie"}

HYPER_CHAINS == {
    "carrefour", "auchan", "leclerc", "e.leclerc", "intermarché", "intermarche", "lidl", "aldi",
    "monoprix", "casino", "super u", "u express", "géant", "geant", "cora", "match", "spar"}

CLEANING_SOFT == {
    "agent d'entretien", "agent de nettoyage", "entretien", "nettoyage",
    "femme de chambre", "valet de chambre", "gouvernante", "laveur", "laveuse"}

PLONGE_SOFT == {"plonge", "plongeur", "plongeuse"}

\* In the operators below  \E t \in {lower(text)} : ...  is the assignment
\* t = text.lower(): t is computed once and names the value.
_has_any(text, words) ==
    \E t \in {lower(text)} : \E w \in words : Contains(t, w)

_role_is_cleaning_only(text) ==
    \E t \in {lower(text)} :
        IF ~_has_any(t, CLEANING_SOFT) THEN FALSE
        ELSE ~(_has_any(t, SERVICE_BAR_POLY) \/ _has_any(t, VENTE_OBJETS) \/ _has_any(t, RAYON_MERCH))

_role_is_plonge_only(text) ==
    \E t \in {lower(text)} :
        IF ~_has_any(t, PLONGE_SOFT) THEN FALSE
        ELSE ~(_has_any(t, SERVICE_BAR_POLY) \/ _has_any(t, VENTE_OBJETS) \/ _has_any(t, RAYON_MERCH))

\* a faulty variant of role_allowed: an allowed category wins over the hard excludes
role_allowed_allow_first(text) ==
    \E t \in {lower(text)} :
        _has_any(t, SERVICE_BAR_POLY) \/ _has_any(t, VENTE_OBJETS) \/ _has_any(t, RAYON_MERCH)

role_allowed(text) ==
    \E t \in {lower(text)} :
        IF _has_any(t, CUISINE_HARD) \/ _has_any(t, ALIMENTAIRE_HARD) \/ _has_any(t, HYPER_CHAINS)
        THEN FALSE
        ELSE IF _role_is_cleaning_only(t) \/ _role_is_plonge_only(t)
        THEN FALSE
        ELSE _has_any(t, SERVICE_BAR_POLY) \/ _has_any(t, VENTE_OBJETS) \/ _has_any(t, RAYON_MERCH)

(***************************************************************************)
(* Other filters (job_search.py, "Autres filtres").                        *)
(***************************************************************************)
HOUSING_KEYS == {
    "logé", "loge", "logement fourni", "logement inclus", "logement possible",
    "nourri", "logé nourri", "loge nourri", "hébergement fourni", "hébergement", "logement sur place"}

matches_housing(text) ==
    \E t \in {lower(text)} : \E k \in HOUSING_KEYS : Contains(t, k)

TRAINING_KEYWORDS == {
    "diplôme", "diplome", "cap", "bep", "bac", "bts", "dut", "licence", "master", "bac+",
    "certificat", "certification", "caces", "ssiap", "haccp", "h a c c p", "titre professionnel"}

TRAINING_REQUIRE_WORDS == {"exig", "requis", "obligatoire", "indispensable", "nécessaire"}

requires_training(text) ==
    \E t \in {lower(text)} :
        LET has_training == \E k \in TRAINING_KEYWORDS : Contains(t, k)
            has_requirement == \E w \in TRAINING_REQUIRE_WORDS : Contains(t, w)
        IN  has_training /\ has_requirement

\* exp[ée]rience at position r
ExpWordAt(t, r) == At(t, r, "exp") /\ Char(t, r + 3) \in {"é", "e"} /\ At(t, r + 4, "rience")

\* \s+d[' ]?exp[ée]rience at position p
ExpSuffixAt(t, p) ==
    /\ p <= Len(t) /\ IsSpace(Char(t, p))
    /\ \E q \in {RunEnd(t, p, IsSpace)} :
           /\ At(t, q, "d")
           /\ \/ (Char(t, q + 1) \in {"'", " "} /\ ExpWordAt(t, q + 2))
              \/ ExpWordAt(t, q + 1)

\* \s*(?:an|ans)\s+d[' ]?exp[ée]rience at position j
YearsTailAt(t, j) ==
    \E k \in {RunEnd(t, j, IsSpace)} :
        /\ At(t, k, "an")
        /\ (ExpSuffixAt(t, k + 2) \/ (At(t, k, "ans") /\ ExpSuffixAt(t, k + 3)))

\* RE_YEARS matches at position i
YearsAt(t, i) ==
    /\ i <= Len(t) /\ IsDigit(Char(t, i))
    /\ \E j \in {RunEnd(t, i, IsDigit)} : YearsTailAt(t, j)

\* the separator of RE_RANGE (its en and em dash are outside the alphabet)
RangeSeparators == {"à", "-"}

\* RE_RANGE matches at position i
RangeAt(t, i) ==
    /\ i <= Len(t) /\ IsDigit(Char(t, i))
    /\ \E j \in {RunEnd(t, i, IsDigit)} : \E k \in {RunEnd(t, j, IsSpace)} :
           /\ k <= Len(t) /\ Char(t, k) \in RangeSeparators
           /\ \E m \in {RunEnd(t, k + 1, IsSpace)} :
                  /\ m <= Len(t) /\ IsDigit(Char(t, m))
                  /\ \E e \in {RunEnd(t, m, IsDigit)} : YearsTailAt(t, e)

MinPrefixes == {"au moins", "minimum", "min.", "min"}

\* \s*(\d+)\s*(?:an|ans) at position p
MinTailAt(t, p) ==
    \E d \in {RunEnd(t, p, IsSpace)} :
        /\ d <= Len(t) /\ IsDigit(Char(t, d))
        /\ \E e \in {RunEnd(t, d, IsDigit)} : \E a \in {RunEnd(t, e, IsSpace)} : At(t, a, "an")

\* RE_MIN matches at position i
MinAt(t, i) == \E pre \in MinPrefixes : At(t, i, pre) /\ MinTailAt(t, i + Len(pre))

\* the position of the leftmost match, 0 when there is none (re.search)
Search(t, M(_, _)) ==
    IF \E i \in 1..Len(t) : M(t, i)
    THEN CHOOSE i \in 1..Len(t) : M(t, i) /\ \A k \in 1..(i - 1) : ~M(t, k)
    ELSE 0

\* int(m.group(1)) of a match that starts with its (\d+) group at position i
NumberAt(t, i) == ToInt(SubSeq(t, i, RunEnd(t, i, IsDigit) - 1))

\* the position of the second (\d+) group of a RE_RANGE match at i
RangeSecondAt(t, i) ==
    CHOOSE m \in 1..Len(t) :
        \E j \in {RunEnd(t, i, IsDigit)} : \E k \in {RunEnd(t, j, IsSpace)} :
            m = RunEnd(t, k + 1, IsSpace)

\* the position of the (\d+) group of a RE_MIN match at i
MinNumberAt(t, i) ==
    CHOOSE d \in 1..Len(t) :
        \E pre \in MinPrefixes :
            At(t, i, pre) /\ MinTailAt(t, i + Len(pre)) /\ d = RunEnd(t, i + Len(pre), IsSpace)

RE_RANGE(t) == Search(t, RangeAt)

RE_MIN(t) == Search(t, MinAt)

RE_YEARS(t) == Search(t, YearsAt)


NO_EXPERIENCE_PHRASES ==
    {"débutant accepté", "debutant accepté", "sans expérience", "sans experience"}

EXPERIENCE_REQUIRED_PHRASES == {
    "expérience exigée", "experience exigée",
    "expérience requise", "experience requise",
    "expérience indispensable", "experience indispensable",
    "expérience obligatoire", "experience obligatoire",
    "expérience significative", "experience significative"}

FIRST_EXPERIENCE_PHRASES == {"première expérience", "premiere experience", "1ère expérience"}

MAX_YEARS == 1

experience_ok(text) ==
    \E t \in {lower(text)} :
        IF \E p \in NO_EXPERIENCE_PHRASES : Contains(t, p) THEN TRUE
        ELSE IF \E p \in EXPERIENCE_REQUIRED_PHRASES : Contains(t, p) THEN FALSE
        ELSE \E m_range \in {RE_RANGE(t)} :
            IF m_range # 0
            THEN \E x \in {NumberAt(t, m_range)} : \E y \in {NumberAt(t, RangeSecondAt(t, m_range))} :
                     Max(x, y) <= MAX_YEARS
            ELSE \E m_min \in {RE_MIN(t)} :
                IF m_min # 0
                THEN \E x \in {NumberAt(t, MinNumberAt(t, m_min))} : x <= MAX_YEARS
                ELSE \E m_years \in {RE_YEARS(t)} :
                    IF m_years # 0
                    THEN \E x \in {NumberAt(t, m_years)} : x <= MAX_YEARS
                    ELSE IF \E p \in FIRST_EXPERIENCE_PHRASES : Contains(t, p) THEN TRUE
                    ELSE TRUE

\* datetime.now().strftime("%d/%m/%Y") on the day of the run
today == "04/11/2026"

RECENT_HINTS == {"aujourd'hui", "today", "il y a ", "nouvelle offre", today}

looks_recent(text) ==
    \E t \in {lower(text)} : \E h \in RECENT_HINTS : Contains(t, h)

mentions_permit(text) == \E t \in {lower(text)} : Contains(t, "permi")

\* [A-ZÉÈÎÏÔÂÇa-zÀ-ÿ' -]
CityChars == Letters \cup {"×", "÷", "'", " ", "-"}

IsCityChar(c) == c \in CityChars

\* \((\d{2,3})\) at position p
DeptCodeAt(t, p) ==
    /\ At(t, p, "(")
    /\ \E e \in {RunEnd(t, p + 1, IsDigit)} : e - (p + 1) \in {2, 3} /\ At(t, e, ")")

\* ([A-ZÉÈÎÏÔÂÇa-zÀ-ÿ' -]+)\s*\((\d{2,3})\) matches at position i
CityCodeAt(t, i) ==
    /\ i <= Len(t) /\ IsCityChar(Char(t, i))
    /\ \E e \in {RunEnd(t, i, IsCityChar)} : \E p \in {RunEnd(t, e, IsSpace)} : DeptCodeAt(t, p)

CITY_PREPOSITIONS == {"à", "sur", "près de", "proche de"}

\* the start of group(1) of the preposition pattern for a preposition ending
\* before position a: \s+ gives back spaces until three city characters follow
CityStart(t, a) ==
    CHOOSE g \in 0..(Len(t) + 1) :
        \E ok \in {{x \in (a + 1)..RunEnd(t, a, IsSpace) : RunEnd(t, x, IsCityChar) - x >= 3}} :
            IF ok = {} THEN g = 0 ELSE g \in ok /\ \A h \in ok : h <= g

\* \b(?:à|sur|près de|proche de)\s+([A-ZÉÈÎÏÔÂÇa-zÀ-ÿ' -]{3,40}) matches at i
CityPrepAt(t, i) ==
    /\ (i = 1 \/ ~IsWord(Char(t, i - 1)))
    /\ \E p \in CITY_PREPOSITIONS : At(t, i, p) /\ CityStart(t, i + Len(p)) # 0

\* group(1) of the department-code pattern matched at m, and its group(2)
CityCodeName(text, m) == SubSeq(text, m, RunEnd(text, m, IsCityChar) - 1)

CityCodeDigits(text, m) ==
    Only({SubSeq(text, p + 1, RunEnd(text, p + 1, IsDigit) - 1) :
              p \in {RunEnd(text, e, IsSpace) : e \in {RunEnd(text, m, IsCityChar)}}})

\* group(1) of the preposition pattern matched at m2
CityPrepName(text, m2) ==
    Only({SubSeq(text, g, Min(RunEnd(text, g, IsCityChar), g + 40) - 1) :
              g \in {CityStart(text, m2 + Len(pre)) :
                        pre \in {p \in CITY_PREPOSITIONS :
                                    At(text, m2, p) /\ CityStart(text, m2 + Len(p)) # 0}}})

pick_city_from_text(text) ==
    Only({IF m # 0
          THEN strip(CityCodeName(text, m)) \o " (" \o CityCodeDigits(text, m) \o ")"
          ELSE Only({IF m2 # 0 THEN strip(CityPrepName(text, m2)) ELSE "" :
                         m2 \in {Search(text, CityPrepAt)}}) :
              m \in {Search(text, CityCodeAt)}})

(***************************************************************************)
(* URL helpers.                                                            *)
(***************************************************************************)
\* a faulty variant of is_http_url: any non-empty link is taken
is_http_url_any(u) == u # ""

is_http_url(u) == u # "" /\ (StartsWith(u, "http://") \/ StartsWith(u, "https://"))

(***************************************************************************)
(* Geocoding.  A coordinate is <<latitude, longitude>> in whole degrees.   *)
(***************************************************************************)
ORIGIN_CITY == "Clermont-Ferrand, France"

\* the key of the geocode memo
GeoKey(text) == lower(strip(text))

\* a faulty variant of geocode: a successful lookup is not kept in the memo
geocode_forgetful(text, cache, loc) ==
    IF text = "" THEN [coords |-> None, cache |-> cache, called |-> FALSE]
    ELSE Only({IF key \in DOMAIN cache
               THEN [coords |-> cache[key], cache |-> cache, called |-> FALSE]
               ELSE [coords |-> loc, cache |-> cache, called |-> TRUE] :
                   key \in {GeoKey(text)}})

\* geocode(text, geo, rate) on memo `cache`, when the external geocoder would
\* answer `loc` (None: no match, or an exception, which RateLimiter swallows
\* and geocode catches): the result and the memo afterwards
geocode(text, cache, loc) ==
    IF text = "" THEN [coords |-> None, cache |-> cache, called |-> FALSE]
    ELSE Only({IF key \in DOMAIN cache
               THEN [coords |-> cache[key], cache |-> cache, called |-> FALSE]
               ELSE IF loc # None
               THEN [coords |-> loc, cache |-> (key :> loc) @@ cache, called |-> TRUE]
               ELSE [coords |-> None, cache |-> cache, called |-> TRUE] :
                   key \in {GeoKey(text)}})

Abs(x) == IF x < 0 THEN -x ELSE x

\* round(haversine_km(lat1, lon1, lat2, lon2)) for two points of one meridian,
\* where dlambda = 0 and the formula is R * |dphi|: 6371 * |lat2 - lat1| * pi / 180,
\* rounded to the nearest integer (pi as 355/113, exact to the kilometre here)
round_haversine_km(lat1, lon1, lat2, lon2) ==
    (2 * 6371 * 355 * Abs(lat2 - lat1) + 113 * 180) \div (2 * 113 * 180)

\* dist_km of a candidate
UNKNOWN_DISTANCE == 99999

\* a faulty variant of dist_km: an unknown distance is recorded as 0
dist_km_zero(coords, orig) ==
    IF coords # None /\ orig # None
    THEN round_haversine_km(orig[1], orig[2], coords[1], coords[2])
    ELSE 0

dist_km(coords, orig) ==
    IF coords # None /\ orig # None
    THEN round_haversine_km(orig[1], orig[2], coords[1], coords[2])
    ELSE UNKNOWN_DISTANCE

(***************************************************************************)
(* The listing normaliser and the signature.                               *)
(***************************************************************************)
text_preview(it) == strip(it.title \o " " \o it.employer \o " " \o it.city \o " " \o it.raw)

\* a faulty variant of check_text: the detail text in front of the preview
check_text_detail_first(preview, detail_text) == strip(detail_text \o " " \o preview)

\* a faulty variant of check_text: the detail text alone
check_text_detail_only(preview, detail_text) == strip(detail_text)

check_text(preview, detail_text) == strip(preview \o " " \o detail_text)

EMPLOYER_LABELS == {"société", "entreprise", "employeur"}

NotLineEnd(c) == c \notin {"\n", "|"}

\* the start of group(1) of the employer pattern after a separator at k: the
\* second \s* gives back white space until a character of the group follows
EmployerStart(t, k) ==
    CHOOSE g \in 0..(Len(t) + 1) :
        \E ok \in {{x \in (k + 1)..RunEnd(t, k + 1, IsSpace) :
                        x <= Len(t) /\ NotLineEnd(Char(t, x))}} :
            IF ok = {} THEN g = 0 ELSE g \in ok /\ \A h \in ok : h <= g

\* the separator position of a match of
\* (?:Société|Entreprise|Employeur)\s*[:\-]\s*([^\n|]+) (re.I) at position i, or 0
EmployerSep(t, i) ==
    CHOOSE k \in 0..(Len(t) + 1) :
        \E ls \in {{l \in EMPLOYER_LABELS :
                        i + Len(l) - 1 <= Len(t)
                            /\ \E w \in {SubSeq(t, i, i + Len(l) - 1)} : lower(w) = l}} :
            IF ls = {} THEN k = 0
            ELSE \E l \in ls : \E e \in {RunEnd(t, i + Len(l), IsSpace)} :
                     IF Char(t, e) \in {":", "-"} /\ EmployerStart(t, e) # 0
                     THEN k = e ELSE k = 0

EmployerAt(t, i) == EmployerSep(t, i) # 0

\* group(1) of the employer pattern matched at m
EmployerName(detail_text, m) ==
    Only({SubSeq(detail_text, g, RunEnd(detail_text, g, NotLineEnd) - 1) :
              g \in {EmployerStart(detail_text, k) : k \in {EmployerSep(detail_text, m)}}})

\* the employer read from the detail text: [found, name]
employer_from_detail(detail_text) ==
    Only({IF m = 0 THEN [found |-> FALSE, name |-> ""]
          ELSE [found |-> TRUE, name |-> strip(EmployerName(detail_text, m))] :
              m \in {Search(detail_text, EmployerAt)}})

\* re.sub(r"\s+", " ", ...)
RECURSIVE CollapseSpaces(_)
CollapseSpaces(s) ==
    IF Len(s) = 0 THEN ""
    ELSE IF IsSpace(Char(s, 1))
    THEN " " \o CollapseSpaces(SubSeq(s, RunEnd(s, 1, IsSpace), Len(s)))
    ELSE Char(s, 1) \o CollapseSpaces(SubSeq(s, 2, Len(s)))

canon(s) == Only({CollapseSpaces(t) : t \in {strip(l) : l \in {lower(s)}}})

(***************************************************************************)
(* The world of a run: the raw listings a provider can return, the pages   *)
(* the web can serve and the answers of the external geocoder.             *)
(***************************************************************************)
MaxItems == 3

Listing(title, employer, city, link, raw) ==
    [title |-> title, employer |-> employer, city |-> city, link |-> link, raw |-> raw]

Pool == {
    Listing("", "", "", "https://a.fr/1",
            "Serveur polyvalent, logé et nourri, débutant accepté, à Lyon (69)"),
    Listing("Serveur", "Auberge du Lac", "Annecy", "https://b.fr/2",
            "logé nourri, permis B souhaité"),
    Listing("serveur ", "AUBERGE  du lac", "Annecy", "https://c.fr/3",
            "poste logé, publié aujourd'hui"),
    Listing("Serveur", "Auberge du Lac", "Annecy", "http://d.fr/4", "poste logé"),
    Listing("Vendeuse", "Boutique Alpine", "Annecy", "https://e.fr/5", "nourri logé"),
    Listing("Saisonnier H/F", "", "", "https://f.fr/6", "emploi saisonnier logé"),
    Listing("Serveuse", "Hôtel Bellevue", "Nice", "https://g.fr/7", "saison d'hiver"),
    Listing("Vendeuse", "Boutique Alpine", "Annecy", "/offre/8", "nourri logé"),
    Listing("Serveur", "Brasserie", "Lyon", "https://h.fr/9", "logé, CAP exigé"),
    Listing("Barman", "Le Pub", "Lyon", "https://i.fr/10", "logé, 3 ans d'expérience"),
    Listing("Barmaid", "", "", "https://j.fr/11", "logée, nouvelle offre, permis B")}

\* what fetch_page_text can return for a link: a page text, or "" on any error
Pages == {
    "Serveur en salle, logé. Employeur: Chalet Blanc | à Nice (06), permis B souhaité",
    "Commis de cuisine et serveur, logé nourri",
    "Vendeur en magasin, logé, BTS exigé, 2 ans d'expérience"}

FetchResults == Pages \cup {""}

\* listings and a page that only the runs of main and the repeated runs meet:
\* a second listing for a link, a city in another spelling of a known place,
\* a preview that states too much experience and no housing
Extra == {
    Listing("Serveur", "Brasserie", "Lyon", "https://h.fr/9", "logé nourri"),
    Listing("Serveur", "Auberge du Lac", "ANNECY ", "https://k.fr/12", "poste logé"),
    Listing("Barman", "Le Pub", "Lyon", "https://l.fr/13", "2 ans d'expérience")}

Listings == Pool \cup Extra

MorePages == {"Barman, poste logé, débutant accepté"}

AllPages == Pages \cup MorePages

AllFetchResults == AllPages \cup {""}

\* the places the external geocoder knows, all on the meridian of the origin
Gazetteer == {
    [name |-> "clermont-ferrand", coords |-> <<46, 3>>],
    [name |-> "lyon", coords |-> <<47, 3>>],
    [name |-> "annecy", coords |-> <<48, 3>>],
    [name |-> "nice", coords |-> <<43, 3>>]}

\* what rate(query) can return: the place of the query, or None (no match, or
\* an exception swallowed by the rate limiter)
Nominatim(query) ==
    {None} \cup {g.coords : g \in {x \in Gazetteer : Contains(lower(query), x.name)}}

(***************************************************************************)
(* The classifiers and the string functions, evaluated once on every text  *)
(* a run can meet.                                                         *)
(***************************************************************************)
PreviewTexts == {text_preview(it) : it \in Listings}

CheckTexts == {check_text(p, d) : p \in PreviewTexts, d \in AllFetchResults}

Classified ==
    [t \in PreviewTexts \cup CheckTexts |->
        [role_allowed |-> role_allowed(t),
         matches_housing |-> matches_housing(t),
         requires_training |-> requires_training(t),
         experience_ok |-> experience_ok(t),
         mentions_permit |-> mentions_permit(t),
         looks_recent |-> looks_recent(t)]]

PreviewOf == [it \in Listings |-> text_preview(it)]

CheckOf == [p \in PreviewTexts, d \in AllFetchResults |-> check_text(p, d)]

CityIn == [t \in PreviewTexts \cup AllPages |-> pick_city_from_text(t)]

EmployerIn == [d \in AllPages |-> employer_from_detail(d)]

Titles == {it.title : it \in Listings}

Employers == {it.employer : it \in Listings} \cup {EmployerIn[d].name : d \in AllPages}

Cities == {it.city : it \in Listings} \cup {CityIn[t] : t \in PreviewTexts \cup AllPages}

Canon == [s \in Titles \cup Employers \cup Cities |-> canon(s)]

HttpUrl == [it \in Listings |-> is_http_url(it.link)]

GeoAnswers == [c \in Cities \cup {ORIGIN_CITY} |-> Nominatim(c \o ", France")]

GeoKeys == [c \in Cities \cup {ORIGIN_CITY} |-> GeoKey(c)]

(***************************************************************************)
(* enrich_and_filter: the examination of one listing.                      *)
(***************************************************************************)
C(t) == Classified[t]

\* a faulty variant of need_detail: the detail page is always wanted
need_detail_always(preview, housing_required) == TRUE

\* a faulty variant of need_detail: both tests must fail
need_detail_both(preview, housing_required) ==
    \E c \in {C(preview)} : (~c.role_allowed) /\ (housing_required /\ ~c.matches_housing)

need_detail(preview, housing_required) ==
    \E c \in {C(preview)} : (~c.role_allowed) \/ (housing_required /\ ~c.matches_housing)

\* the listing reaches the detail-fetch decision and the decision is to fetch
WillFetch(it, housing_required, seen) ==
    /\ HttpUrl[it]
    /\ it.link \notin seen
    /\ \E preview \in {PreviewOf[it]} : \E c \in {C(preview)} :
           /\ ~c.requires_training
           /\ c.experience_ok
           /\ need_detail(preview, housing_required)

\* a faulty variant of Outcome: a permit mention rejects
OutcomePermitRejects(it, housing_required, seen, p, c) ==
    IF ~HttpUrl[it] THEN "bad_link"
    ELSE IF it.link \in seen THEN "seen_link"
    ELSE IF p.requires_training THEN "training_preview"
    ELSE IF ~p.experience_ok THEN "experience_preview"
    ELSE IF ~c.role_allowed THEN "role"
    ELSE IF housing_required /\ ~c.matches_housing THEN "housing"
    ELSE IF c.requires_training THEN "training_detail"
    ELSE IF ~c.experience_ok THEN "experience_detail"
    ELSE IF c.mentions_permit THEN "permit"
    ELSE "accepted"

\* where a listing leaves the loop body, given the classification of its
\* preview (p) and of its merged text (c)
Outcome(it, housing_required, seen, p, c) ==
    IF ~HttpUrl[it] THEN "bad_link"
    ELSE IF it.link \in seen THEN "seen_link"
    ELSE IF p.requires_training THEN "training_preview"
    ELSE IF ~p.experience_ok THEN "experience_preview"
    ELSE IF ~c.role_allowed THEN "role"
    ELSE IF housing_required /\ ~c.matches_housing THEN "housing"
    ELSE IF c.requires_training THEN "training_detail"
    ELSE IF ~c.experience_ok THEN "experience_detail"
    ELSE "accepted"

\* the body of the loop up to the decision on the listing, when fetch_page_text
\* (if called) returns `page`: where the listing leaves the loop body
Examine(it, housing_required, seen, page) ==
    Only({[outcome |-> Outcome(it, housing_required, seen, C(preview), C(check)),
           link |-> it.link, preview |-> preview,
           fetched |-> fetch, detail |-> detail_text, check |-> check, geo |-> "none",
           key |-> "", coords |-> None] :
              <<preview, fetch, detail_text, check>> \in
                  {<<p, f, d, CheckOf[p, d]>> :
                      <<p, f, d>> \in {<<p, f, IF f THEN page ELSE "">> :
                                          p \in {PreviewOf[it]},
                                          f \in {WillFetch(it, housing_required, seen)}}}})

\* employer and city of an accepted listing, improved from the detail text
employer_of(it, detail_text) ==
    IF detail_text # "" /\ it.employer = "" /\ EmployerIn[detail_text].found
    THEN EmployerIn[detail_text].name
    ELSE it.employer

city_of(it, detail_text) ==
    Only({IF detail_text # "" /\ city = "" /\ CityIn[detail_text] # ""
          THEN CityIn[detail_text]
          ELSE city :
              city \in {IF it.city # "" THEN it.city ELSE CityIn[PreviewOf[it]]}})

\* the argument of geocode for an accepted listing
geocode_query(it, detail_text) ==
    Only({IF city # "" THEN city ELSE CityIn[PreviewOf[it]] : city \in {city_of(it, detail_text)}})

\* the candidate appended for an accepted listing (phone and email, which no
\* decision reads, are left out; pos is the listing's position in the input
\* and resolved tells whether geocode returned coordinates)
Candidate(it, ex, coords, orig, position) ==
    Only({[title |-> it.title,
           employer |-> employer_of(it, ex.detail),
           city |-> city_of(it, ex.detail),
           distance_km |-> dist_km(coords, orig),
           link |-> it.link,
           raw |-> ex.check,
           recent_bias |-> IF c.looks_recent THEN -1 ELSE 0,
           requires_permit |-> c.mentions_permit,
           pos |-> position,
           resolved |-> coords # None] : c \in {C(ex.check)}})

(***************************************************************************)
(* enrich_and_filter: signature dedup and ranking.                         *)
(***************************************************************************)
Bool01(b) == IF b THEN 1 ELSE 0

\* Python's < on tuples of three numbers
TupleLess(a, b) ==
    \/ a[1] < b[1]
    \/ (a[1] = b[1] /\ a[2] < b[2])
    \/ (a[1] = b[1] /\ a[2] = b[2] /\ a[3] < b[3])

Sig(o) == <<Canon[o.title], Canon[o.employer], Canon[o.city]>>

DedupKey(o) == <<Bool01(o.requires_permit), o.distance_km, o.recent_bias>>

\* a faulty variant of DedupStep: the first candidate of a signature stays
DedupStepKeepFirst(best, o) ==
    Only({IF hit = {} THEN Append(best, [sig |-> sig, o |-> o]) ELSE best :
              <<sig, hit>> \in {<<x, {i \in 1..Len(best) : best[i].sig = x}>> : x \in {Sig(o)}}})

\* a faulty variant of DedupStep: a replacement moves the signature to the end
DedupStepMoveToEnd(best, o) ==
    Only({IF hit = {} THEN Append(best, [sig |-> sig, o |-> o])
          ELSE Only({IF TupleLess(DedupKey(o), DedupKey(best[i].o))
                     THEN Append(SubSeq(best, 1, i - 1) \o SubSeq(best, i + 1, Len(best)),
                                 [sig |-> sig, o |-> o])
                     ELSE best : i \in hit}) :
              <<sig, hit>> \in {<<x, {i \in 1..Len(best) : best[i].sig = x}>> : x \in {Sig(o)}}})

\* one iteration of the dedup loop on best_by_sig, a dict kept as the list of
\* its [sig, o] entries in insertion order
DedupStep(best, o) ==
    Only({IF hit = {} THEN Append(best, [sig |-> sig, o |-> o])
          ELSE Only({IF TupleLess(DedupKey(o), DedupKey(best[i].o))
                     THEN [best EXCEPT ![i].o = o]
                     ELSE best : i \in hit}) :
              <<sig, hit>> \in {<<x, {i \in 1..Len(best) : best[i].sig = x}>> : x \in {Sig(o)}}})

RECURSIVE best_by_sig(_)
best_by_sig(cands) ==
    IF cands = <<>> THEN <<>>
    ELSE DedupStep(best_by_sig(SubSeq(cands, 1, Len(cands) - 1)), cands[Len(cands)])

\* list(best_by_sig.values())
Values(best) == [i \in 1..Len(best) |-> best[i].o]

\* a faulty variant of SortKey: the permit flag before the recency
SortKeyPermitFirst(x) == <<Bool01(x.requires_permit), x.recent_bias, x.distance_km>>

SortKey(x) == <<x.recent_bias, Bool01(x.requires_permit), x.distance_km>>

\* list.sort(key=...): the stable sort of xs by key
StableSort(xs, key(_)) ==
    LET before(i, j) == TupleLess(key(xs[i]), key(xs[j]))
                            \/ (key(xs[i]) = key(xs[j]) /\ i < j)
        rank(i) == 1 + Cardinality({j \in 1..Len(xs) : before(j, i)})
    IN  [p \in 1..Len(xs) |-> xs[CHOOSE i \in 1..Len(xs) : rank(i) = p]]

rank_offers(cands) == StableSort(Values(best_by_sig(cands)), SortKey)

\* a faulty variant of return_enriched: MAX_RESULTS caps the list
return_truncated(sorted, max_results) ==
    SubSeq(sorted, 1, Min(Len(sorted), max_results))

\* if len(enriched) < MAX_RESULTS: print(...);  return enriched
return_enriched(sorted, max_results) == sorted

(***************************************************************************)
(* The run of enrich_and_filter.                                           *)
(***************************************************************************)
EmptyCache == [k \in {} |-> None]

NoListing == [outcome |-> "none", link |-> "", preview |-> "", fetched |-> FALSE,
              detail |-> "", check |-> "", geo |-> "none", key |-> "", coords |-> None]

\* no answer of the web or of the geocoder is on record
NoAnswers == [page |-> EmptyCache, loc |-> EmptyCache]

DEFAULT_MAX_RESULTS == 30

\* enrich_and_filter is run once, on its own: collect_offers and send_email
\* are not part of the run
Standalone ==
    /\ items = <<>>
    /\ calls = <<>>
    /\ sent = FALSE
    /\ run = 1
    /\ first_output = <<>>
    /\ oracle = NoAnswers

Idle == txt = "" /\ verdict = "none"

Init ==
    /\ HOUSING_REQUIRED \in BOOLEAN
    /\ pc = "start"
    /\ n = 0
    /\ origin = None
    /\ candidates = <<>>
    /\ seen_links = {}
    /\ GEOCODE_CACHE = EmptyCache
    /\ fetched = {}
    /\ contacted = {}
    /\ last = NoListing
    /\ enriched = <<>>
    /\ Idle
    /\ MAX_RESULTS = DEFAULT_MAX_RESULTS
    /\ Standalone

\* a faulty variant of after_origin: the run goes on without an origin
after_origin_continue(coords) == "loop"

\* if not origin: raise RuntimeError(...)
after_origin(coords) == IF coords = None THEN "raised" ELSE "loop"

\* geocoder(); origin = geocode(ORIGIN_CITY, geo, rate); raise if not origin
GeocodeOrigin ==
    /\ pc = "start"
    /\ \E loc \in GeoAnswers[ORIGIN_CITY] :
       \E g \in {geocode(ORIGIN_CITY, GEOCODE_CACHE, loc)} :
          /\ origin' = g.coords
          /\ GEOCODE_CACHE' = g.cache
          /\ pc' = after_origin(g.coords)
    /\ UNCHANGED <<HOUSING_REQUIRED, n, candidates, seen_links, fetched, contacted,
                   last, enriched, txt, verdict, callers>>

\* how the geocode call of an accepted listing ended
GeoOutcome(g) ==
    IF g.coords # None THEN (IF g.called THEN "resolved" ELSE "cached")
    ELSE IF g.called THEN "failed" ELSE "empty"

\* the geocoder is asked (the query is not empty and not in the memo)
External(ex, query, cache) ==
    ex.outcome = "accepted" /\ query # "" /\ GeoKeys[query] \notin DOMAIN cache

\* a faulty variant of seen_after: only the link of an accepted listing is kept
seen_after_accepted(seen, link, outcome) ==
    IF outcome = "accepted" THEN seen \cup {link} ELSE seen

\* if not is_http_url(link): continue;  if link in seen_links: continue;
\* seen_links.add(link)
seen_after(seen, link, outcome) ==
    IF outcome = "bad_link" THEN seen ELSE seen \cup {link}

\* the body of the loop on listing `it`, when the examination of the listing
\* is ex, the argument of geocode is query and the geocode call returns g
LoopBody(it, ex, query, g) ==
    /\ n' = n + 1
    /\ seen_links' = seen_after(seen_links, it.link, ex.outcome)
    /\ fetched' = IF ex.fetched THEN fetched \cup {it.link} ELSE fetched
    /\ IF ex.outcome = "accepted"
       THEN /\ GEOCODE_CACHE' = g.cache
            /\ contacted' = contacted \cup {it.link}
            /\ candidates' = Append(candidates,
                                    Candidate(it, ex, g.coords, origin, n + 1))
            /\ last' = [ex EXCEPT !.geo = GeoOutcome(g),
                                  !.key = IF query = "" THEN "" ELSE GeoKeys[query],
                                  !.coords = g.coords]
       ELSE /\ UNCHANGED <<GEOCODE_CACHE, contacted, candidates>>
            /\ last' = ex
    /\ UNCHANGED <<HOUSING_REQUIRED, pc, origin, enriched, txt, verdict>>

\* one iteration of  for it in items  on the next listing of the input list
ExamineListing ==
    /\ pc = "loop"
    /\ n < MaxItems
    /\ \E it \in Pool :
       \E page \in (IF WillFetch(it, HOUSING_REQUIRED, seen_links) THEN FetchResults ELSE {""}) :
       \E ex \in {Examine(it, HOUSING_REQUIRED, seen_links, page)} :
       \E query \in {geocode_query(it, ex.detail)} :
       \E loc \in (IF External(ex, query, GEOCODE_CACHE) THEN GeoAnswers[query] ELSE {None}) :
       \E g \in {geocode(query, GEOCODE_CACHE, loc)} :
          LoopBody(it, ex, query, g)
    /\ UNCHANGED callers

\* the end of the input list: signature dedup, sort, return
RankAndReturn ==
    /\ pc = "loop"
    /\ enriched' = return_enriched(rank_offers(candidates), MAX_RESULTS)
    /\ pc' = "done"
    /\ UNCHANGED <<HOUSING_REQUIRED, n, origin, candidates, seen_links, GEOCODE_CACHE,
                   fetched, contacted, last, txt, verdict, callers>>

Next == GeocodeOrigin \/ ExamineListing \/ RankAndReturn

Spec == Init /\ [][Next]_vars

(***************************************************************************)
(* main: collect_offers, enrich_and_filter on the collected list,          *)
(* make_email and send_email.                                              *)
(***************************************************************************)
\* the number of providers in API_PROVIDERS + HTML_FALLBACKS
MaxProviders == 2

\* the values of MAX_RESULTS a run is configured with
Thresholds == {1, DEFAULT_MAX_RESULTS}

\* the batches a provider can return
Batches == {
    <<>>,
    <<Listing("Serveur", "Auberge du Lac", "Annecy", "https://b.fr/2",
              "logé nourri, permis B souhaité"),
      Listing("Vendeuse", "Boutique Alpine", "Annecy", "https://e.fr/5", "nourri logé")>>,
    <<Listing("Serveur", "Brasserie", "Lyon", "https://h.fr/9", "logé, CAP exigé"),
      Listing("Serveur", "Brasserie", "Lyon", "https://h.fr/9", "logé nourri")>>,
    <<Listing("Serveur", "Auberge du Lac", "ANNECY ", "https://k.fr/12", "poste logé"),
      Listing("Barman", "Le Pub", "Lyon", "https://l.fr/13", "2 ans d'expérience")>>}

\* what a call of a provider does: it returns a batch, or it raises
ProviderResults ==
    {[raised |-> FALSE, batch |-> b] : b \in Batches} \cup {[raised |-> TRUE, batch |-> <<>>]}

\* a faulty variant of collect_step: a provider that raises empties the list
collect_step_reset(collected, result) ==
    IF result.raised THEN <<>> ELSE collected \o result.batch

\* try: batch = provider(); items += batch  except Exception: print(...)
collect_step(collected, result) ==
    IF result.raised THEN collected ELSE collected \o result.batch

MainInit ==
    /\ HOUSING_REQUIRED \in BOOLEAN
    /\ MAX_RESULTS \in Thresholds
    /\ pc = "collect"
    /\ n = 0
    /\ origin = None
    /\ candidates = <<>>
    /\ seen_links = {}
    /\ GEOCODE_CACHE = EmptyCache
    /\ fetched = {}
    /\ contacted = {}
    /\ last = NoListing
    /\ enriched = <<>>
    /\ Idle
    /\ Standalone

\* one iteration of  for provider in API_PROVIDERS + HTML_FALLBACKS ; after the
\* last provider collect_offers returns and main calls enrich_and_filter
CallProvider ==
    /\ pc = "collect"
    /\ Len(calls) < MaxProviders
    /\ \E result \in ProviderResults :
          /\ calls' = Append(calls, result)
          /\ items' = collect_step(items, result)
    /\ pc' = IF Len(calls) + 1 = MaxProviders THEN "start" ELSE "collect"
    /\ UNCHANGED <<HOUSING_REQUIRED, n, origin, candidates, seen_links, GEOCODE_CACHE,
                   fetched, contacted, last, enriched, txt, verdict,
                   MAX_RESULTS, sent, run, first_output, oracle>>

\* one iteration of  for it in items  of enrich_and_filter(all_items)
ExamineItem ==
    /\ pc = "loop"
    /\ n < Len(items)
    /\ \E it \in {items[n + 1]} :
       \E page \in (IF WillFetch(it, HOUSING_REQUIRED, seen_links) THEN AllFetchResults ELSE {""}) :
       \E ex \in {Examine(it, HOUSING_REQUIRED, seen_links, page)} :
       \E query \in {geocode_query(it, ex.detail)} :
       \E loc \in (IF External(ex, query, GEOCODE_CACHE) THEN GeoAnswers[query] ELSE {None}) :
       \E g \in {geocode(query, GEOCODE_CACHE, loc)} :
          LoopBody(it, ex, query, g)
    /\ UNCHANGED callers

\* the loop has run over all of items: dedup, sort, return to main
RankItems ==
    /\ n = Len(items)
    /\ RankAndReturn

\* subject, text, html = make_email(offers); send_email(subject, text, html)
SendEmail ==
    /\ pc = "done"
    /\ sent' = TRUE
    /\ pc' = "exit"
    /\ UNCHANGED <<HOUSING_REQUIRED, n, origin, candidates, seen_links, GEOCODE_CACHE,
                   fetched, contacted, last, enriched, txt, verdict,
                   MAX_RESULTS, items, calls, run, first_output, oracle>>

MainNext == CallProvider \/ GeocodeOrigin \/ ExamineItem \/ RankItems \/ SendEmail

MainSpec == MainInit /\ [][MainNext]_vars

(***************************************************************************)
(* enrich_and_filter run twice in one process on the same input list.  The *)
(* web and the geocoder are functions of their argument: an answer given   *)
(* once is given again for the same link or the same query.  The geocode   *)
(* memo is a module-level dictionary and outlives the first run.           *)
(***************************************************************************)
\* the longest input list of a repeated run
MaxRepeat == 2

\* the listings of the input lists of a repeated run
RepeatPool == {
    Listing("Serveur", "Auberge du Lac", "ANNECY ", "https://k.fr/12", "poste logé"),
    Listing("Serveur", "Auberge du Lac", "Annecy", "https://b.fr/2",
            "logé nourri, permis B souhaité"),
    Listing("Vendeuse", "Boutique Alpine", "Annecy", "https://e.fr/5", "nourri logé"),
    Listing("Saisonnier H/F", "", "", "https://f.fr/6", "emploi saisonnier logé")}

Inputs == UNION {[1..k -> RepeatPool] : k \in 1..MaxRepeat}

\* the argument of the external geocoder for the geocode argument `query`
rate_argument(query) == query \o ", France"

\* what fetch_page_text can return for the link, given the answers on record
PageAnswers(link, answers) ==
    IF link \in DOMAIN answers.page THEN {answers.page[link]} ELSE FetchResults

\* what the external geocoder can return for the query, given the answers on record
LocAnswers(query, answers) ==
    IF rate_argument(query) \in DOMAIN answers.loc
    THEN {answers.loc[rate_argument(query)]}
    ELSE GeoAnswers[query]

\* the answers on record after the examination ex of a listing, where the page
\* was `page` and the geocoder, asked when `asked`, answered loc
Recorded(answers, ex, page, asked, query, loc) ==
    [page |-> IF ex.fetched THEN (ex.link :> page) @@ answers.page ELSE answers.page,
     loc |-> IF asked THEN (rate_argument(query) :> loc) @@ answers.loc ELSE answers.loc]

TwiceInit ==
    /\ HOUSING_REQUIRED \in BOOLEAN
    /\ MAX_RESULTS = DEFAULT_MAX_RESULTS
    /\ pc = "start"
    /\ n = 0
    /\ origin = None
    /\ candidates = <<>>
    /\ seen_links = {}
    /\ GEOCODE_CACHE = EmptyCache
    /\ fetched = {}
    /\ contacted = {}
    /\ last = NoListing
    /\ enriched = <<>>
    /\ Idle
    /\ items \in Inputs
    /\ calls = <<>>
    /\ sent = FALSE
    /\ run = 1
    /\ first_output = <<>>
    /\ oracle = NoAnswers

\* one iteration of  for it in items , the web and the geocoder answering as
\* they answered before
ExamineRepeatable ==
    /\ pc = "loop"
    /\ n < Len(items)
    /\ \E it \in {items[n + 1]} :
       \E page \in (IF WillFetch(it, HOUSING_REQUIRED, seen_links)
                    THEN PageAnswers(it.link, oracle) ELSE {""}) :
       \E ex \in {Examine(it, HOUSING_REQUIRED, seen_links, page)} :
       \E query \in {geocode_query(it, ex.detail)} :
       \E asked \in {External(ex, query, GEOCODE_CACHE)} :
       \E loc \in (IF asked THEN LocAnswers(query, oracle) ELSE {None}) :
       \E g \in {geocode(query, GEOCODE_CACHE, loc)} :
          /\ LoopBody(it, ex, query, g)
          /\ oracle' = Recorded(oracle, ex, page, asked, query, loc)
    /\ UNCHANGED <<MAX_RESULTS, items, calls, sent, run, first_output>>

\* enrich_and_filter has returned; it is called again with the same list.  Its
\* local variables are new, GEOCODE_CACHE is the one of the first run.
RunAgain ==
    /\ pc = "done"
    /\ run = 1
    /\ first_output' = enriched
    /\ run' = 2
    /\ pc' = "start"
    /\ n' = 0
    /\ origin' = None
    /\ candidates' = <<>>
    /\ seen_links' = {}
    /\ fetched' = {}
    /\ contacted' = {}
    /\ last' = NoListing
    /\ enriched' = <<>>
    /\ UNCHANGED <<HOUSING_REQUIRED, GEOCODE_CACHE, txt, verdict,
                   MAX_RESULTS, items, calls, sent, oracle>>

TwiceNext == GeocodeOrigin \/ ExamineRepeatable \/ RankItems \/ RunAgain

TwiceSpec == TwiceInit /\ [][TwiceNext]_vars

(***************************************************************************)
(* The classifiers on their own: role_allowed and experience_ok applied    *)
(* to texts made of at most MaxPhrases phrases.                            *)
(***************************************************************************)
MaxPhrases == 2

RECURSIVE Join(_)
Join(parts) ==
    IF Len(parts) = 0 THEN ""
    ELSE IF Len(parts) = 1 THEN parts[1]
    ELSE parts[1] \o ", " \o Join(Tail(parts))

PhraseTexts(phrases) ==
    {Join(parts) : parts \in UNION {[1..k -> phrases] : k \in 0..MaxPhrases}}

ROLE_PHRASES == {
    "Serveur polyvalent", "vendeuse en boutique", "mise en rayon", "Commis de cuisine",
    "boucher", "hypermarché Carrefour", "agent d'entretien", "plongeur", "saisonnier"}

EXPERIENCE_PHRASES == {
    "débutant accepté", "Expérience exigée", "experience requise", "1 an d'expérience",
    "3 ans d'expérience", "0 à 1 an d'expérience", "2 à 3 ans d'expérience",
    "minimum 2 ans", "min. 1 an", "première expérience"}

RoleTexts == PhraseTexts(ROLE_PHRASES)

ExperienceTexts == PhraseTexts(EXPERIENCE_PHRASES)

\* enrich_and_filter is not running
NoRun(mode) ==
    /\ HOUSING_REQUIRED = TRUE
    /\ pc = mode
    /\ n = 0
    /\ origin = None
    /\ candidates = <<>>
    /\ seen_links = {}
    /\ GEOCODE_CACHE = EmptyCache
    /\ fetched = {}
    /\ contacted = {}
    /\ last = NoListing
    /\ enriched = <<>>
    /\ MAX_RESULTS = DEFAULT_MAX_RESULTS
    /\ Standalone

Verdict(b) == IF b THEN "accept" ELSE "reject"

\* the classifiers on the texts of the two specifications
RoleAllowedOf == [t \in RoleTexts |-> role_allowed(t)]

ExperienceOkOf == [t \in ExperienceTexts |-> experience_ok(t)]

RoleInit == NoRun("role") /\ txt \in RoleTexts /\ verdict = "none"

ApplyRoleAllowed ==
    /\ pc = "role"
    /\ verdict = "none"
    /\ verdict' = Verdict(RoleAllowedOf[txt])
    /\ UNCHANGED <<HOUSING_REQUIRED, pc, n, origin, candidates, seen_links, GEOCODE_CACHE,
                   fetched, contacted, last, enriched, txt, callers>>

RoleNext == ApplyRoleAllowed

RoleSpec == RoleInit /\ [][RoleNext]_vars

ExperienceInit == NoRun("experience") /\ txt \in ExperienceTexts /\ verdict = "none"

ApplyExperienceOk ==
    /\ pc = "experience"
    /\ verdict = "none"
    /\ verdict' = Verdict(ExperienceOkOf[txt])
    /\ UNCHANGED <<HOUSING_REQUIRED, pc, n, origin, candidates, seen_links, GEOCODE_CACHE,
                   fetched, contacted, last, enriched, txt, callers>>

ExperienceNext == ApplyExperienceOk

ExperienceSpec == ExperienceInit /\ [][ExperienceNext]_vars

(***************************************************************************)
(* The two stages of the training and experience checks on their own: the  *)
(* checks on a preview text, then on the preview merged with a detail text.*)
(***************************************************************************)
RECHECK_PHRASES == {
    "Serveur logé", "CAP exigé", "BTS souhaité", "diplôme requis",
    "débutant accepté", "sans expérience", "Expérience exigée",
    "1 an d'expérience", "3 ans d'expérience", "0 à 1 an d'expérience",
    "2 à 3 ans d'expérience", "minimum 2 ans", "min. 1 an"}

RecheckPreviews == RECHECK_PHRASES \cup {"2 ans d'expérience, avec ou sans"}

RecheckDetails == RECHECK_PHRASES \cup {"", "expérience en salle"}

RecheckPairs == RecheckPreviews \X RecheckDetails

MergedOf == [pd \in RecheckPairs |-> check_text(pd[1], pd[2])]

\* if requires_training(text_preview): continue
\* if not experience_ok(text_preview): continue
\* ...
\* if requires_training(check_text): continue
\* if not experience_ok(check_text): continue
recheck_outcome(preview, merged) ==
    IF requires_training(preview) THEN "training_preview"
    ELSE IF ~experience_ok(preview) THEN "experience_preview"
    ELSE IF requires_training(merged) THEN "training_detail"
    ELSE IF ~experience_ok(merged) THEN "experience_detail"
    ELSE "pass"

RecheckOf == [pd \in RecheckPairs |-> recheck_outcome(pd[1], MergedOf[pd])]

RecheckInit == NoRun("recheck") /\ txt \in RecheckPairs /\ verdict = "none"

ApplyRecheck ==
    /\ pc = "recheck"
    /\ verdict = "none"
    /\ verdict' = RecheckOf[txt]
    /\ UNCHANGED <<HOUSING_REQUIRED, pc, n, origin, candidates, seen_links, GEOCODE_CACHE,
                   fetched, contacted, last, enriched, txt, callers>>

RecheckNext == ApplyRecheck

RecheckSpec == RecheckInit /\ [][RecheckNext]_vars

(***************************************************************************)
(* Properties.                                                             *)
(***************************************************************************)
\* the link test of the loop, on a link and the links seen before
LinkIsHttp(link) == StartsWith(link, "http://") \/ StartsWith(link, "https://")

\* the listing recorded in l passes the link, training, experience, role and
\* housing checks, `seen` being the links seen before it
PassesChecks(l, seen, housing_required) ==
    /\ LinkIsHttp(l.link)
    /\ l.link \notin seen
    /\ ~C(l.preview).requires_training
    /\ C(l.preview).experience_ok
    /\ C(l.check).role_allowed
    /\ (housing_required => C(l.check).matches_housing)
    /\ ~C(l.check).requires_training
    /\ C(l.check).experience_ok

LastCandidate == candidates[Len(candidates)]

\* C1: a permit mention never rejects. In every iteration of the loop, a listing
\* that passes the link, training, experience, role and housing checks is
\* appended to candidates whatever mentions_permit says of its merged text, and
\* the candidate's requires_permit is mentions_permit of the merged text.
C1_PermitNeverRejects ==
    [][(n' = n + 1 /\ PassesChecks(last', seen_links, HOUSING_REQUIRED))
          => /\ Len(candidates') = Len(candidates) + 1
             /\ candidates'[Len(candidates')].link = last'.link
             /\ candidates'[Len(candidates')].requires_permit = C(last'.check).mentions_permit]_vars

\* a listing whose merged text mentions a permit has just been appended
C1_Witness ==
    /\ last.outcome = "accepted"
    /\ C(last.check).mentions_permit
    /\ Len(candidates) >= 1
    /\ LastCandidate.link = last.link
    /\ LastCandidate.requires_permit

\* the texts that hold a hard-exclude keyword (kitchen, food trade, hypermarket)
HardExcluded(text) ==
    \E t \in {lower(text)} :
        \E w \in CUISINE_HARD \cup ALIMENTAIRE_HARD \cup HYPER_CHAINS : Contains(t, w)

HardExcludedTexts == {t \in PreviewTexts \cup CheckTexts : HardExcluded(t)}

GroupKey(o) == <<Bool01(o.requires_permit), o.distance_km, o.recent_bias>>

SameGroup(a, b) == Sig(a) = Sig(b)

\* C3: after the signature dedup, the output holds exactly one member of every
\* signature group of candidates, a member whose tuple (requires_permit,
\* distance_km, recent_bias) is the minimum of the group; and every entry of
\* the output is a candidate.
C3_DedupKeepsGroupMinimum ==
    pc = "done" =>
        /\ \A j \in 1..Len(enriched) : \E k \in 1..Len(candidates) : candidates[k] = enriched[j]
        /\ \A i \in 1..Len(candidates) :
              \E j \in 1..Len(enriched) :
                  /\ SameGroup(enriched[j], candidates[i])
                  /\ \A j2 \in 1..Len(enriched) :
                         SameGroup(enriched[j2], candidates[i]) => j2 = j
                  /\ \A k \in 1..Len(candidates) :
                         SameGroup(candidates[k], candidates[i])
                             => ~TupleLess(GroupKey(candidates[k]), GroupKey(enriched[j]))

\* a later candidate of a group took the place of an earlier one
C3_Witness ==
    /\ pc = "done"
    /\ \E j \in 1..Len(enriched), k \in 1..Len(candidates) :
           /\ SameGroup(enriched[j], candidates[k])
           /\ candidates[k].pos < enriched[j].pos
           /\ TupleLess(GroupKey(enriched[j]), GroupKey(candidates[k]))

\* the order of the output
RankKey(x) == <<x.recent_bias, Bool01(x.requires_permit), x.distance_km>>

\* C4: the returned list is sorted ascending by (recent_bias, requires_permit
\* as 0/1, distance_km).
C4_OutputSorted ==
    pc = "done" =>
        \A i, j \in 1..Len(enriched) :
            i < j => ~TupleLess(RankKey(enriched[j]), RankKey(enriched[i]))

\* a recent candidate that mentions a permit stands in front of a candidate
\* that is neither, and that came earlier in the input
C4_Witness ==
    /\ pc = "done"
    /\ \E i, j \in 1..Len(enriched) :
           /\ i < j
           /\ enriched[i].pos > enriched[j].pos
           /\ enriched[i].recent_bias < enriched[j].recent_bias
           /\ enriched[i].requires_permit /\ ~enriched[j].requires_permit

\* the input position of the first candidate of o's signature group
FirstPos(o) ==
    CHOOSE p \in {candidates[k].pos : k \in {x \in 1..Len(candidates) : SameGroup(candidates[x], o)}} :
        \A k \in 1..Len(candidates) : SameGroup(candidates[k], o) => p <= candidates[k].pos

\* C5 (as stated): two candidates of the output with equal (recent_bias,
\* requires_permit, distance_km) are in the order of their listings in the
\* input list, also when one of them replaced an earlier candidate of its group.
C5_TiesInInputOrder ==
    pc = "done" =>
        \A i, j \in 1..Len(enriched) :
            (i < j /\ RankKey(enriched[i]) = RankKey(enriched[j]))
                => enriched[i].pos < enriched[j].pos

\* C5 (amended): two candidates of the output with equal (recent_bias,
\* requires_permit, distance_km) are in the order in which their signature
\* groups first appear among the candidates: a candidate that replaced an
\* earlier one of its group stands at the place of the one it replaced.
C5_TiesInGroupOrder ==
    pc = "done" =>
        \A i, j \in 1..Len(enriched) :
            (i < j /\ RankKey(enriched[i]) = RankKey(enriched[j]))
                => FirstPos(enriched[i]) < FirstPos(enriched[j])

\* two candidates tie, and the first of them comes later in the input: it
\* replaced an earlier candidate of its group
C5_Witness ==
    /\ pc = "done"
    /\ \E i, j \in 1..Len(enriched) :
           /\ i < j
           /\ RankKey(enriched[i]) = RankKey(enriched[j])
           /\ enriched[i].pos > enriched[j].pos
           /\ FirstPos(enriched[i]) < enriched[i].pos

\* C6: every candidate of the output has a link that starts with http:// or
\* https://, and no two candidates of the output have the same link.
C6_LinksHttpAndDistinct ==
    pc = "done" =>
        /\ \A i \in 1..Len(enriched) : LinkIsHttp(enriched[i].link)
        /\ \A i, j \in 1..Len(enriched) : enriched[i].link = enriched[j].link => i = j

\* the input held a listing twice, or a listing with a relative link, and the
\* output has candidates
C6_Witness ==
    /\ pc = "done"
    /\ Len(enriched) >= 1
    /\ n > Len(candidates)
    /\ last.outcome \in {"seen_link", "bad_link"}

\* C7: in every iteration of the loop the detail page is fetched if and only
\* if the link is valid and not yet seen, the preview passes the training and
\* experience checks, and the preview fails role_allowed or (HOUSING_REQUIRED
\* and the preview fails matches_housing); fetched grows by that link only.
C7_FetchIffNeeded ==
    [][n' = n + 1 =>
          /\ last'.fetched <=>
                 /\ LinkIsHttp(last'.link)
                 /\ last'.link \notin seen_links
                 /\ ~C(last'.preview).requires_training
                 /\ C(last'.preview).experience_ok
                 /\ \/ ~C(last'.preview).role_allowed
                    \/ (HOUSING_REQUIRED /\ ~C(last'.preview).matches_housing)
          /\ fetched' = IF last'.fetched THEN fetched \cup {last'.link} ELSE fetched]_vars

\* a page was fetched only because the required housing is not in the preview
C7_Witness ==
    /\ last.fetched
    /\ last.link \in fetched
    /\ HOUSING_REQUIRED
    /\ C(last.preview).role_allowed
    /\ ~C(last.preview).matches_housing

\* the decision order of experience_ok as it is stated, on a lower-cased text
HasNumericQualifier(t) == RE_RANGE(t) # 0 \/ RE_MIN(t) # 0 \/ RE_YEARS(t) # 0

StatedExperienceOk(t) ==
    IF \E p \in NO_EXPERIENCE_PHRASES : Contains(t, p) THEN TRUE
    ELSE IF (\E p \in EXPERIENCE_REQUIRED_PHRASES : Contains(t, p)) /\ ~HasNumericQualifier(t)
    THEN FALSE
    ELSE IF RE_RANGE(t) # 0
    THEN Max(NumberAt(t, RE_RANGE(t)), NumberAt(t, RangeSecondAt(t, RE_RANGE(t)))) <= 1
    ELSE IF RE_MIN(t) # 0 THEN NumberAt(t, MinNumberAt(t, RE_MIN(t))) <= 1
    ELSE IF RE_YEARS(t) # 0 THEN NumberAt(t, RE_YEARS(t)) <= 1
    ELSE TRUE

StatedExperienceOkOf == [t \in ExperienceTexts |-> StatedExperienceOk(lower(t))]

\* C8: experience_ok follows the stated decision order: a no-experience phrase
\* accepts; otherwise a required/mandatory/significant phrase rejects only when
\* the text has no numeric years qualifier; otherwise the first numeric pattern
\* in the order range, minimum, plain decides (at most 1 year accepts);
\* otherwise accept.
C8_StatedDecisionOrder ==
    (pc = "experience" /\ verdict # "none") => verdict = Verdict(StatedExperienceOkOf[txt])

\* the three tiers of role_allowed, on a lower-cased text
MatchesAny(t, words) == \E w \in words : Contains(t, w)

AllowedCategory(t) ==
    MatchesAny(t, SERVICE_BAR_POLY) \/ MatchesAny(t, VENTE_OBJETS) \/ MatchesAny(t, RAYON_MERCH)

ThreeTier(t) ==
    IF MatchesAny(t, CUISINE_HARD) \/ MatchesAny(t, ALIMENTAIRE_HARD) \/ MatchesAny(t, HYPER_CHAINS)
    THEN FALSE
    ELSE IF (MatchesAny(t, CLEANING_SOFT) \/ MatchesAny(t, PLONGE_SOFT)) /\ ~AllowedCategory(t)
    THEN FALSE
    ELSE AllowedCategory(t)

ThreeTierOf == [t \in RoleTexts |-> ThreeTier(lower(t))]

\* the texts with a kitchen keyword and an allowed category
KitchenAndAllowedTexts ==
    {t \in RoleTexts : MatchesAny(lower(t), CUISINE_HARD) /\ AllowedCategory(lower(t))}

\* C9: role_allowed is false on a text that matches a hard-exclude category,
\* also when it matches an allowed one; otherwise false on a text that matches
\* a cleaning or dishwashing keyword and no allowed category; otherwise true
\* iff the text matches an allowed category.
C9_RoleThreeTier ==
    (pc = "role" /\ verdict # "none") => verdict = Verdict(ThreeTierOf[txt])

\* a text with a hard-exclude keyword and an allowed one was refused
C9_Witness ==
    /\ pc = "role"
    /\ verdict = "reject"
    /\ txt \in KitchenAndAllowedTexts

\* C10: a candidate whose geocoding fails (empty city text, no answer, or an
\* exception) is appended with the distance 99999; and in the output it comes
\* after every candidate of the same recency and permit flag whose distance
\* was resolved.
C10_UnknownDistanceKeptAndLast ==
    /\ (last.outcome = "accepted" /\ last.geo \in {"failed", "empty"})
           => /\ Len(candidates) >= 1
              /\ LastCandidate.link = last.link
              /\ ~LastCandidate.resolved
              /\ LastCandidate.distance_km = 99999
    /\ pc = "done" =>
           \A i, j \in 1..Len(enriched) :
               (/\ ~enriched[i].resolved
                /\ enriched[j].resolved
                /\ enriched[i].recent_bias = enriched[j].recent_bias
                /\ enriched[i].requires_permit = enriched[j].requires_permit) => j < i

\* the geocoder gave no answer for the last listing, which is in the output
\* behind an earlier-resolved candidate of the same recency and permit flag
C10_Witness ==
    /\ pc = "done"
    /\ last.outcome = "accepted"
    /\ last.geo = "failed"
    /\ \E i, j \in 1..Len(enriched) :
           /\ j < i
           /\ ~enriched[i].resolved
           /\ enriched[i].link = last.link
           /\ enriched[j].resolved
           /\ enriched[i].recent_bias = enriched[j].recent_bias
           /\ enriched[i].requires_permit = enriched[j].requires_permit

\* C11: if geocoding the origin city fails, enrich_and_filter raises before any
\* listing is examined: no detail fetch, no contact fetch, no candidate, no
\* returned list; and main sends no email.
C11_OriginFailureAborts ==
    (pc \notin {"collect", "start"} /\ origin = None)
        => /\ pc = "raised"
           /\ n = 0
           /\ last = NoListing
           /\ fetched = {}
           /\ contacted = {}
           /\ candidates = <<>>
           /\ enriched = <<>>
           /\ ~sent

\* the providers delivered listings with valid links and the run has raised
C11_Witness ==
    /\ pc = "raised"
    /\ origin = None
    /\ \E k \in 1..Len(items) : HttpUrl[items[k]]

\* the batches of the providers that did not raise, in provider order
RECURSIVE Delivered(_)
Delivered(cs) ==
    IF cs = <<>> THEN <<>>
    ELSE Delivered(SubSeq(cs, 1, Len(cs) - 1))
             \o (IF cs[Len(cs)].raised THEN <<>> ELSE cs[Len(cs)].batch)

\* C12: a provider that raises contributes no listing and does not end
\* collect_offers: every provider of the list is called, and the list returned
\* is the concatenation, in provider order, of the batches of the providers
\* that did not raise.
C12_RaisingProviderSkipped ==
    /\ items = Delivered(calls)
    /\ pc # "collect" => Len(calls) = MaxProviders

\* a provider returned listings, a later provider raised, and the list
\* collect_offers returned holds the listings
C12_Witness ==
    /\ pc # "collect"
    /\ \E i, j \in 1..Len(calls) :
           /\ i < j
           /\ ~calls[i].raised /\ calls[i].batch # <<>>
           /\ calls[j].raised
    /\ items # <<>>

\* the signatures of the accepted candidates
CandidateSigs == {Sig(candidates[k]) : k \in 1..Len(candidates)}

\* C13: whatever MAX_RESULTS is, the returned list has exactly one entry for
\* every signature of the accepted candidates and nothing else: it is not cut
\* when it is longer than MAX_RESULTS and not filled when it is shorter.
C13_ThresholdNeverChangesResult ==
    pc \in {"done", "exit"} =>
        /\ Len(enriched) = Cardinality(CandidateSigs)
        /\ \A sig \in CandidateSigs :
               Cardinality({i \in 1..Len(enriched) : Sig(enriched[i]) = sig}) = 1
        /\ \A i \in 1..Len(enriched) : \E k \in 1..Len(candidates) : enriched[i] = candidates[k]

\* more offers than MAX_RESULTS are returned, after two candidates of one
\* signature were reduced to one
C13_Witness ==
    /\ pc = "done"
    /\ Len(enriched) > MAX_RESULTS
    /\ Len(candidates) > Len(enriched)

\* an offer as enrich_and_filter returns it
Offer(o) ==
    [title |-> o.title, employer |-> o.employer, city |-> o.city,
     distance_km |-> o.distance_km, link |-> o.link, raw |-> o.raw,
     recent_bias |-> o.recent_bias, requires_permit |-> o.requires_permit]

Offers(list) == [i \in 1..Len(list) |-> Offer(list[i])]

\* C14 (as stated): a second run of enrich_and_filter on the same input list,
\* with the web and the geocoder answering the same for the same arguments and
\* the geocode memo of the first run still filled, returns the same list in
\* the same order as the first run.
C14_SecondRunSameOutput ==
    (run = 2 /\ pc = "done") => Offers(enriched) = Offers(first_output)

\* C15 (as stated): the listing with an empty city field and the text "Serveur
\* polyvalent, logé et nourri, débutant accepté, à Lyon (69)" passes the role,
\* housing and experience checks without a detail fetch, and the city derived
\* from its text by the name-plus-department-code pattern is exactly
\* "Lyon (69)", without the preposition in front of the name.
C15_LyonScenario ==
    (last.link = "https://a.fr/1" /\ last.outcome # "seen_link")
        => /\ last.preview = "Serveur polyvalent, logé et nourri, débutant accepté, à Lyon (69)"
           /\ last.outcome = "accepted"
           /\ ~last.fetched
           /\ LastCandidate.link = last.link
           /\ LastCandidate.city = "Lyon (69)"

\* C16 (as stated): a listing is dropped as a link duplicate only when an
\* earlier listing of the input with the same link was accepted as a candidate.
C16_DuplicateOnlyOfAccepted ==
    [][(n' = n + 1 /\ last'.outcome = "seen_link")
          => \E k \in 1..Len(candidates) : candidates[k].link = last'.link]_vars

\* C16 (amended): a listing with a valid link is dropped as a link duplicate
\* exactly when an earlier listing of the input has the same link, whether that
\* listing was accepted or rejected by a later check: the link is put on
\* record before the checks, and the first listing seen with a link is the
\* only one evaluated.
C16_DuplicateOfSeen ==
    [][(n' = n + 1 /\ LinkIsHttp(last'.link))
          => /\ last'.outcome = "seen_link" <=> \E k \in 1..n : items[k].link = last'.link
             /\ last'.link \in seen_links']_vars

\* a listing that passes every check on its own text was dropped as a link
\* duplicate of a listing that was rejected
C16_Witness ==
    /\ last.outcome = "seen_link"
    /\ \A k \in 1..Len(candidates) : candidates[k].link # last.link
    /\ PassesChecks(last, {}, HOUSING_REQUIRED)

\* C17: the geocode memo is read before every external lookup and written only
\* on success.  An entry of the memo is never changed or removed; a geocode
\* call for a name whose trimmed, lower-cased form is in the memo returns the
\* coordinates of the memo without an external lookup; for a name that is not
\* in the memo the geocoder is asked, a success adds exactly that entry, and a
\* failure (no answer or an exception) leaves the memo as it was, so that the
\* next call for the name asks the geocoder again.
C17_MemoReadFirstWrittenOnSuccess ==
    [][/\ \A k \in DOMAIN GEOCODE_CACHE :
              k \in DOMAIN GEOCODE_CACHE' /\ GEOCODE_CACHE'[k] = GEOCODE_CACHE[k]
       /\ (n' = n + 1 /\ last'.outcome = "accepted" /\ last'.key # "")
              => IF last'.key \in DOMAIN GEOCODE_CACHE
                 THEN /\ last'.geo = "cached"
                      /\ last'.coords = GEOCODE_CACHE[last'.key]
                      /\ GEOCODE_CACHE' = GEOCODE_CACHE
                 ELSE \/ /\ last'.geo = "resolved"
                         /\ last'.coords # None
                         /\ GEOCODE_CACHE' = (last'.key :> last'.coords) @@ GEOCODE_CACHE
                      \/ /\ last'.geo = "failed"
                         /\ last'.coords = None
                         /\ GEOCODE_CACHE' = GEOCODE_CACHE]_vars

\* the lookup of a place failed, the next lookup of the place asked the
\* geocoder again and succeeded, and the last lookup of the place, under
\* another spelling, was answered by the memo
C17_Witness ==
    /\ last.outcome = "accepted"
    /\ last.geo = "cached"
    /\ LastCandidate.city # ""
    /\ \E i, j \in 1..(Len(candidates) - 1) :
           /\ i < j
           /\ candidates[i].city # "" /\ GeoKeys[candidates[i].city] = last.key
           /\ ~candidates[i].resolved
           /\ candidates[j].city # "" /\ GeoKeys[candidates[j].city] = last.key
           /\ candidates[j].resolved
           /\ candidates[i].city # LastCandidate.city

\* C18: whenever the detail page of a listing is fetched and fetch_page_text
\* returns the empty text (the fetch failed, or the page has no text), the
\* merged text is the preview text and the listing is rejected by the role
\* check or by the required housing check: no candidate is appended.
C18_FailedFetchRejects ==
    [][(n' = n + 1 /\ last'.fetched /\ last'.detail = "")
          => /\ last'.check = last'.preview
             /\ last'.outcome \in {"role", "housing"}
             /\ candidates' = candidates
             /\ contacted' = contacted]_vars

\* the detail page of a listing with an allowed role and no housing in its
\* preview was asked for and came back empty: the listing is rejected
C18_Witness ==
    /\ last.fetched
    /\ last.link \in fetched
    /\ last.detail = ""
    /\ C(last.preview).role_allowed
    /\ last.outcome = "housing"
    /\ \A k \in 1..Len(candidates) : candidates[k].link # last.link

\* the training and experience checks on the merged text of a pair
MergedTraining == [pd \in RecheckPairs |-> requires_training(MergedOf[pd])]

MergedExperienceOk == [pd \in RecheckPairs |-> experience_ok(MergedOf[pd])]

\* which numeric pattern of experience_ok decides on the lower-cased text t:
\* 1 the range, 2 the minimum, 3 the plain number of years, 4 none
Priority(t) ==
    IF RE_RANGE(t) # 0 THEN 1 ELSE IF RE_MIN(t) # 0 THEN 2 ELSE IF RE_YEARS(t) # 0 THEN 3 ELSE 4

\* the merged text m can undo the experience rejection of the preview p: it
\* holds a no-experience phrase, or the preview holds no required-experience
\* phrase and a numeric pattern that comes before the one of the preview
Overturns(p, m) ==
    \/ \E ph \in NO_EXPERIENCE_PHRASES : Contains(m, ph)
    \/ /\ ~\E ph \in EXPERIENCE_REQUIRED_PHRASES : Contains(p, ph)
       /\ Priority(m) < Priority(p)

OverturnsOf == [pd \in RecheckPairs |-> Overturns(lower(pd[1]), lower(MergedOf[pd]))]

=============================================================================
